---------------------------- MODULE Spec2Model ----------------------------
(***************************************************************************)
(* A model of ls_updater.py: one invocation of run(), from the loading of  *)
(* config.json to the process exit, over a filesystem made of the          *)
(* installation tree, the ls_downloads directory and the backup directory  *)
(* ls_backup/<version_code>_to_<new_version>/.                             *)
(*                                                                         *)
(* Text (version numbers, urls, version.php) is a sequence of tokens: a    *)
(* token is one character or one of the literal delimiters the program     *)
(* splits on.                                                              *)
(***************************************************************************)
EXTENDS Integers, Sequences

(***************************************************************************)
(* Text helpers: str.split(t)[0], str.split(t).pop(), str.split(t)[1],     *)
(* str.strip(t), t in str, str.startswith(t)                               *)
(***************************************************************************)
Positions(s, t) == {i \in 1..Len(s) : s[i] = t}

Contains(s, t) == Positions(s, t) # {}

Min(S) == CHOOSE x \in S : \A y \in S : x <= y

Max(S) == CHOOSE x \in S : \A y \in S : x >= y

\* s.split(t)[0]
BeforeFirst(s, t) ==
    IF Contains(s, t) THEN SubSeq(s, 1, Min(Positions(s, t)) - 1) ELSE s

\* s.split(t).pop()
AfterLast(s, t) ==
    IF Contains(s, t) THEN SubSeq(s, Max(Positions(s, t)) + 1, Len(s)) ELSE s

\* s.split(t)[1]; defined only when t occurs in s (IndexError otherwise)
SecondPiece(s, t) ==
    LET rest == SubSeq(s, Min(Positions(s, t)) + 1, Len(s))
    IN  BeforeFirst(rest, t)

RECURSIVE StripLeft(_, _)
StripLeft(s, t) ==
    IF s # <<>> /\ Head(s) = t THEN StripLeft(Tail(s), t) ELSE s

RECURSIVE StripRight(_, _)
StripRight(s, t) ==
    IF s # <<>> /\ s[Len(s)] = t THEN StripRight(SubSeq(s, 1, Len(s) - 1), t) ELSE s

\* s.strip(t)
Strip(s, t) == StripRight(StripLeft(s, t), t)

\* s.startswith(t), t one character
StartsWith(s, t) == s # <<>> /\ Head(s) = t

(***************************************************************************)
(* config.json and validate_config                                         *)
(***************************************************************************)
expected_options ==
    << "branch", "db_cnf_path", "db_name", "db_port", "db_server",
       "install_octal_permissions", "install_owner", "install_path",
       "log_to_file", "log_to_stdout", "log_to_syslog",
       "web_server_init_system", "web_server_service" >>

Branches == {"lts", "unstable", "dev"}

InitSystems ==
    {"generic", "service", "systemd", "systemctl", "init.d", "openrc",
     "rc.d", "upstart", "finit", "initctl", "epoch"}

\* A configuration file with every option set
ConfigFile(branch, init) ==
    [ branch |-> branch,
      db_cnf_path |-> "/etc/ls/db.cnf",
      db_name |-> "limesurvey",
      db_port |-> "3306",
      db_server |-> "localhost",
      install_octal_permissions |-> "750",
      install_owner |-> "www-data",
      install_path |-> "/var/www/limesurvey",
      log_to_file |-> "True",
      log_to_stdout |-> "True",
      log_to_syslog |-> "False",
      web_server_init_system |-> init,
      web_server_service |-> "apache2" ]

\* The init systems the configurations below use: one per command family
\* that the bounded model exercises
ModelInitSystems == {"systemd", "rc.d"}

ValidConfigs ==
    {ConfigFile(b, i) : b \in Branches, i \in ModelInitSystems}

\* The empty JSON object
EmptyConfig == [o \in {} |-> ""]

DropKey(c, k) == [o \in (DOMAIN c) \ {k} |-> c[o]]

InvalidConfigs ==
    { EmptyConfig,
      DropKey(ConfigFile("lts", "systemd"), "db_port"),
      [ConfigFile("lts", "systemd") EXCEPT !.db_name = ""],
      [ConfigFile("lts", "systemd") EXCEPT !.web_server_service = "None"],
      ConfigFile("stable", "systemd"),
      ConfigFile("lts", "runit") }

ConfigFiles == ValidConfigs \cup InvalidConfigs

\* Mutant: validate_config without the test of web_server_init_system
validate_configAnyInitSystem(c, ipath) ==
    /\ DOMAIN c # {}
    /\ \A i \in 1..Len(expected_options) :
          /\ expected_options[i] \in DOMAIN c
          /\ c[expected_options[i]] # "None"
          /\ c[expected_options[i]] # ""
    /\ c.branch \in {"lts", "unstable", "dev"}
    /\ ipath.exists
    /\ ipath.access

\* validate_config: TRUE when it returns True, FALSE when it raises
\* (RuntimeError, or KeyError on a missing option); ipath is the state of
\* install_path on disk
validate_config(c, ipath) ==
    /\ DOMAIN c # {}
    /\ \A i \in 1..Len(expected_options) :
          /\ expected_options[i] \in DOMAIN c
          /\ c[expected_options[i]] # "None"
          /\ c[expected_options[i]] # ""
    /\ c.branch \in {"lts", "unstable", "dev"}
    /\ ipath.exists
    /\ ipath.access
    /\ c.web_server_init_system \in InitSystems

(***************************************************************************)
(* version.php                                                             *)
(***************************************************************************)
VNKey == "$config['versionnumber'] = '"
VNEnd == "';\n$config"
BNKey == "$config['buildnumber'] = "
BNEnd == ";\n$config"

VersionPhp(versionnumber, rawbuild) ==
    <<"<?php", VNKey>> \o versionnumber
        \o <<VNEnd, "['dbversionnumber'] = 492", BNEnd, BNKey>> \o rawbuild
        \o <<BNEnd, "['updatable'] = true;">>

\* A version.php without the two assignments
GarbledVersionPhp == <<"<?php">>

\* lines 115-120: both reads succeed only when the delimiters are there
VersionReadable(text) == Contains(text, VNKey) /\ Contains(text, BNKey)

ParseVersion(text) == BeforeFirst(SecondPiece(text, VNKey), VNEnd)

ParseBuild(text) == Strip(BeforeFirst(SecondPiece(text, BNKey), BNEnd), "'")

VersionCode(version, build) == version \o <<"+">> \o build

\* Installed version numbers of the model
InstalledVersions ==
    { <<"4", ".", "0">>, <<"5", ".", "3">>, <<"6", ".", "0">>,
      <<"4", "0", ".", "0">>, <<"5", ".", "3", "+", "1">> }

RawBuilds == { <<"'", "1", "'">> }

VersionFiles ==
    {VersionPhp(v, b) : v \in InstalledVersions, b \in RawBuilds}
        \cup {GarbledVersionPhp}

(***************************************************************************)
(* The releases page: one url per release-button anchor                    *)
(***************************************************************************)
ReleaseUrl(dir, version, build) ==
    <<"https:", "/", "/", "download.limesurvey.org", "/", dir, "/", "limesurvey">>
        \o version \o <<"+">> \o build \o <<".zip">>

Urls ==
    { ReleaseUrl("lts", <<"5", ".", "3">>, <<"1">>),
      ReleaseUrl("lts", <<"6", ".", "0">>, <<"1">>),
      ReleaseUrl("latest-stable", <<"6", ".", "0">>, <<"1">>),
      ReleaseUrl("archive", <<"3", ".", "0">>, <<"1">>) }

\* Longest releases page of the model
MaxReleases == 2

Pages == UNION {[1..n -> Urls] : n \in 0..MaxReleases}

\* lines 142-150; "none" is the else branch
release_type(u) ==
    IF Contains(u, "lts") THEN "lts"
    ELSE IF Contains(u, "latest-stable") THEN "unstable"
    ELSE IF Contains(u, "unstable-releases") THEN "dev"
    ELSE "none"

\* lines 151-153
UrlFile(u) == AfterLast(AfterLast(u, "/"), "limesurvey")

release_code(u) ==
    LET version == BeforeFirst(UrlFile(u), "+")
        build == BeforeFirst(AfterLast(UrlFile(u), "+"), ".zip")
    IN  version \o <<"+">> \o build

ParseRow(u) == [release_code |-> release_code(u), type |-> release_type(u), url |-> u]

\* lines 140-156: the loop over the rows; it raises at the first row of no
\* known type
\* the entry of every url of the model, computed once
RowTable == [u \in Urls |-> ParseRow(u)]

ParseFails(rows) == \E i \in 1..Len(rows) : RowTable[rows[i]].type = "none"

ParseRows(rows) == [i \in 1..Len(rows) |-> RowTable[rows[i]]]

\* The version.php a release ships: its version number and its build
ReleaseVersionPhp(code) ==
    VersionPhp(BeforeFirst(code, "+"), <<"'">> \o AfterLast(code, "+") \o <<"'">>)

\* The texts of version.php of the model: those installed at the start and
\* those of the releases
VersionTexts ==
    VersionFiles \cup {ReleaseVersionPhp(RowTable[u].release_code) : u \in Urls}

\* lines 115-121 for every text of the model, computed once
VersionTable ==
    [ t \in VersionTexts |->
        IF VersionReadable(t)
        THEN [ readable |-> TRUE, version |-> ParseVersion(t),
               code |-> VersionCode(ParseVersion(t), ParseBuild(t)) ]
        ELSE [ readable |-> FALSE, version |-> <<>>, code |-> <<>> ] ]

\* lines 164-170: the loop with its break; the result is <<new_version, url>>,
\* <<>> when both stay None
RECURSIVE SelectFrom(_, _, _)
SelectFrom(rels, i, branch) ==
    IF i > Len(rels) THEN <<>>
    ELSE IF rels[i].type = branch THEN <<rels[i].release_code, rels[i].url>>
    ELSE SelectFrom(rels, i + 1, branch)

\* Mutant: the loop without its break, so the last entry on the channel wins
SelectReleaseLast(rels, branch) ==
    LET on == {i \in DOMAIN rels : rels[i].type = branch}
    IN  IF on = {} THEN <<>>
        ELSE <<rels[Max(on)].release_code, rels[Max(on)].url>>

\* Mutant: the channel test dropped when no entry is on the channel
SelectReleaseAnyChannel(rels, branch) ==
    IF SelectFrom(rels, 1, branch) # <<>> THEN SelectFrom(rels, 1, branch)
    ELSE IF rels # <<>> THEN <<rels[1].release_code, rels[1].url>>
    ELSE <<>>

SelectRelease(rels, branch) == SelectFrom(rels, 1, branch)


(***************************************************************************)
(* The filesystem and the service                                          *)
(***************************************************************************)
\* Files of the installation tree that step 6 copies
NeededFiles == {"upload", "config", "security"}

\* The needed files an installation of the model may lack
MissingSets == {{}, {"upload"}, {"config"}, {"security"}}

BackupArtifacts == {"sql", "zip", "upload", "config", "security"}

\* The installation tree as installed: its version.php and which of the
\* needed files it holds ("old" is pre-upgrade content)
OldInstall(php, missing) ==
    [ exists |-> TRUE, access |-> TRUE, version_php |-> php, app |-> "old",
      upload |-> IF "upload" \in missing THEN "none" ELSE "old",
      config |-> IF "config" \in missing THEN "none" ELSE "old",
      security |-> IF "security" \in missing THEN "none" ELSE "old",
      configdir |-> TRUE, owner |-> "root:root", mode |-> "755" ]

NoInstall ==
    [ exists |-> FALSE, access |-> FALSE, version_php |-> <<>>, app |-> "none",
      upload |-> "none", config |-> "none", security |-> "none",
      configdir |-> FALSE, owner |-> "none", mode |-> "none" ]

Installs ==
    { OldInstall(php, m) :
        php \in VersionFiles,
        m \in MissingSets }
      \cup { NoInstall,
             [OldInstall(GarbledVersionPhp, {}) EXCEPT !.access = FALSE] }

\* What a release archive unpacks to: the limesurvey/ directory, its upload
\* directory, its application/config directory and the config files in it
ArchiveTree(ls, up, cdir, cfg, sec) ==
    [limesurvey |-> ls, upload |-> up, configdir |-> cdir, config |-> cfg, security |-> sec]

NoTree == ArchiveTree(FALSE, FALSE, FALSE, FALSE, FALSE)

ArchiveTrees ==
    { ArchiveTree(TRUE, TRUE, TRUE, FALSE, FALSE),
      ArchiveTree(TRUE, FALSE, TRUE, FALSE, FALSE),
      ArchiveTree(TRUE, TRUE, TRUE, TRUE, FALSE) }

\* ls_downloads/<new_version>.zip and ls_downloads/<new_version>/
EmptyDownloads == [zip |-> "none", content |-> NoTree, dir |-> "none", tree |-> NoTree]

\* before the run: nothing, or the archive and the directory of an earlier run
Downloads ==
    {EmptyDownloads, [EmptyDownloads EXCEPT !.zip = "stale", !.dir = "stale"]}

\* ls_backup/<version_code>_to_<new_version>/
StaleBackup(stale) ==
    [ dir |-> stale # {},
      sql |-> IF "sql" \in stale THEN "stale" ELSE "none",
      zip |-> IF "zip" \in stale THEN "stale" ELSE "none",
      upload |-> IF "upload" \in stale THEN "stale" ELSE "none",
      config |-> IF "config" \in stale THEN "stale" ELSE "none",
      security |-> IF "security" \in stale THEN "stale" ELSE "none" ]

\* before the run: nothing, or one artifact of an earlier run
Backups ==
    {StaleBackup({})} \cup {StaleBackup({a}) : a \in BackupArtifacts}

\* lines 206-217 and 352-363: the command of an init system
ServiceCommand(init, verb, service) ==
    IF init \in {"systemd", "systemctl"} THEN <<"systemctl", verb, service>>
    ELSE IF init \in {"service", "generic"} THEN <<"service", service, verb>>
    ELSE IF init \in {"init.d", "openrc"} THEN <<"/etc/init.d/", service, verb>>
    ELSE IF init = "rc.d" THEN <<"/etc/rc.d/", service, verb>>
    ELSE IF init \in {"upstart", "finit", "initctl"} THEN <<"initctl", verb, service>>
    ELSE IF init = "epoch" THEN <<"epoch", verb, service>>
    ELSE <<>>

\* How a subprocess.run(..., check=True) ends: the command returns 0, it
\* returns a non-zero status (CalledProcessError), or it cannot be launched
\* (FileNotFoundError, PermissionError: an OSError)
CommandResults == {"ok", "nonzero", "oserror"}

VARIABLES
    pc,              \* the place in run()
    config,          \* the global config
    install,         \* the tree at install_path
    downloads,       \* ls_downloads
    backup,          \* the directory at backup_path
    service,         \* the web server
    page,            \* the urls of the release buttons of the fetched page
    releases,        \* the list releases
    current_version, \* run()'s current_version
    version_code,    \* run()'s version_code
    new_version,     \* run()'s new_version, <<>> for None
    url,             \* run()'s url, <<>> for None
    exit_code,       \* the process exit status, -1 while running
    ended,           \* where the run ended
    errors,          \* the log.error records written
    log_setup,       \* __log_setup was called
    steps,           \* the workflow steps begun, in order
    cmds,            \* the external commands launched, in order
    copied,          \* the files step 6 copied
    restored,        \* the files step 9 moved back
    crashed          \* an earlier run was killed between steps 7 and 9

vars ==
    << pc, config, install, downloads, backup, service, page, releases,
       current_version, version_code, new_version, url, exit_code, ended,
       errors, log_setup, steps, cmds, copied, restored, crashed >>

fs == <<install, downloads, backup, service>>

locals == <<page, releases, current_version, version_code, new_version, url>>

history == <<steps, cmds, copied, restored>>

\* The places of the twelve workflow steps, in order
Places ==
    << "download", "extract", "stop", "backup_db", "backup_files", "copy_needed",
       "delete", "move", "restore", "chown", "chmod", "start" >>

StepPlaces == {Places[i] : i \in DOMAIN Places}

StepNo(p) == CHOOSE i \in DOMAIN Places : Places[i] = p

Init ==
    /\ pc = "load"
    /\ config = EmptyConfig
    /\ install \in Installs
    /\ downloads \in Downloads
    /\ backup \in Backups
    /\ service = "running"
    /\ page = <<>>
    /\ releases = <<>>
    /\ current_version = <<>>
    /\ version_code = <<>>
    /\ new_version = <<>>
    /\ url = <<>>
    /\ exit_code = -1
    /\ ended = "running"
    /\ errors = <<>>
    /\ log_setup = FALSE
    /\ steps = <<>>
    /\ cmds = <<>>
    /\ copied = {}
    /\ restored = {}
    /\ crashed = FALSE

\* Mutant: exit(0) after the error record
LogAndExitZero(msg) ==
    /\ errors' = Append(errors, msg)
    /\ exit_code' = 0
    /\ pc' = "done"

\* Mutant: the process does not leave after the error record
LogAndExitHangs(msg) ==
    /\ errors' = Append(errors, msg)
    /\ exit_code' = exit_code
    /\ pc' = "hung"

\* log.error(msg); exit(1)
LogAndExit(msg) ==
    /\ errors' = Append(errors, msg)
    /\ exit_code' = 1
    /\ pc' = "done"

\* an exception no except clause catches: traceback on stderr, status 1
Uncaught ==
    /\ errors' = errors
    /\ exit_code' = 1
    /\ pc' = "done"

\* lines 219-225 (and the like): the end of a subprocess.run that failed
CommandFailed(result, msg) ==
    IF result = "nonzero" THEN LogAndExit(msg) ELSE Uncaught

\* lines 103-111
LoadConfig ==
    /\ pc = "load"
    /\ \E c \in ConfigFiles :
          /\ config' = c
          /\ IF validate_config(c, install)
             THEN /\ log_setup' = TRUE
                  /\ pc' = "version"
                  /\ UNCHANGED <<exit_code, ended>>
             ELSE /\ log_setup' = FALSE
                  /\ pc' = "done"
                  /\ exit_code' = 1
                  /\ ended' = "config"
    /\ UNCHANGED <<fs, locals, history, errors, crashed>>

\* lines 113-125
DetectVersion ==
    /\ pc = "version"
    /\ IF install.exists /\ VersionTable[install.version_php].readable
       THEN /\ current_version' = VersionTable[install.version_php].version
            /\ version_code' = VersionTable[install.version_php].code
            /\ pc' = "fetch"
            /\ UNCHANGED <<exit_code, ended, errors>>
       ELSE /\ LogAndExit("Unable to determine current LimeSurvey version")
            /\ ended' = "version"
            /\ UNCHANGED <<current_version, version_code>>
    /\ UNCHANGED <<config, fs, page, releases, new_version, url, log_setup, crashed, history>>

\* lines 127-133
FetchReleases ==
    /\ pc = "fetch"
    /\ \/ /\ \E rows \in Pages : page' = rows
          /\ pc' = "parse"
          /\ UNCHANGED <<exit_code, ended, errors>>
       \/ /\ LogAndExit("Unable to retrieve releases page")
          /\ ended' = "fetch"
          /\ page' = page
    /\ UNCHANGED <<config, fs, releases, current_version, version_code,
                   new_version, url, log_setup, crashed, history>>

\* lines 135-161
ParseReleases ==
    /\ pc = "parse"
    /\ IF ParseFails(page)
       THEN /\ LogAndExit("Unable to parse HTML of webpage for releases")
            /\ ended' = "parse"
            /\ releases' = releases
       ELSE /\ releases' = ParseRows(page)
            /\ pc' = "select"
            /\ UNCHANGED <<exit_code, ended, errors>>
    /\ UNCHANGED <<config, fs, page, current_version, version_code,
                   new_version, url, log_setup, crashed, history>>

\* lines 163-177
SelectVersion ==
    /\ pc = "select"
    /\ LET sel == SelectRelease(releases, config.branch)
       IN  IF sel = <<>>
           THEN /\ LogAndExit("Unable to find compatible version")
                /\ ended' = "no_release"
                /\ UNCHANGED <<new_version, url>>
           ELSE /\ new_version' = sel[1]
                /\ url' = sel[2]
                /\ IF sel[1] = current_version
                   THEN /\ exit_code' = 0
                        /\ pc' = "done"
                        /\ ended' = "up_to_date"
                        /\ errors' = errors
                   ELSE /\ pc' = "download"
                        /\ UNCHANGED <<exit_code, ended, errors>>
    /\ UNCHANGED <<config, fs, page, releases, current_version, version_code,
                   log_setup, crashed, history>>


\* Mutant: the exit(1) after log.error is missing, so the run goes on with
\* the next step
StepFailedKeepsGoing(msg) ==
    /\ errors' = Append(errors, msg)
    /\ IF StepNo(pc) < Len(Places)
       THEN /\ pc' = Places[StepNo(pc) + 1]
            /\ UNCHANGED <<exit_code, ended>>
       ELSE /\ pc' = "done"
            /\ exit_code' = 0
            /\ ended' = "completed"

\* Mutant: a failed step is logged and tried again
StepFailedTriesAgain(msg) ==
    /\ errors' = Append(errors, msg)
    /\ pc' = pc
    /\ UNCHANGED <<exit_code, ended>>

\* exit(1) of a workflow step, after its log.error
StepFailed(msg) ==
    /\ LogAndExit(msg)
    /\ ended' = "aborted"

\* step 1, lines 178-190
Download ==
    /\ pc = "download"
    /\ steps' = Append(steps, 1)
    /\ \/ /\ \E tree \in ArchiveTrees :
                downloads' = [downloads EXCEPT !.zip = "release", !.content = tree]
          /\ pc' = "extract"
          /\ UNCHANGED <<exit_code, ended, errors>>
       \/ /\ \E z \in {downloads.zip, "none"} :
                downloads' = [downloads EXCEPT !.zip = z]
          /\ StepFailed("Unable to download")
    /\ UNCHANGED <<config, install, backup, service, locals, log_setup, crashed,
                   cmds, copied, restored>>

\* step 2, lines 193-201
Extract ==
    /\ pc = "extract"
    /\ steps' = Append(steps, 2)
    /\ \/ /\ downloads' = [downloads EXCEPT !.dir = "extracted", !.tree = downloads.content]
          /\ pc' = "stop"
          /\ UNCHANGED <<exit_code, ended, errors>>
       \/ /\ \E d \in {downloads.dir, "none"} :
                downloads' = [downloads EXCEPT !.dir = d]
          /\ StepFailed("Unable to unzip release")
    /\ UNCHANGED <<config, install, backup, service, locals, log_setup, crashed,
                   cmds, copied, restored>>

\* Mutant: a stop command that failed is logged and the run goes on
StopServiceGoesOn ==
    /\ pc = "stop"
    /\ steps' = Append(steps, 3)
    /\ cmds' = Append(cmds, ServiceCommand(config.web_server_init_system, "stop",
                                           config.web_server_service))
    /\ \E result \in CommandResults :
          IF result = "ok"
          THEN /\ service' = "stopped"
               /\ pc' = "backup_db"
               /\ UNCHANGED <<exit_code, ended, errors>>
          ELSE /\ service' = service
               /\ errors' = Append(errors, "Unable to stop web server cleanly")
               /\ pc' = "backup_db"
               /\ UNCHANGED <<exit_code, ended>>
    /\ UNCHANGED <<config, install, downloads, backup, locals, log_setup, crashed,
                   copied, restored>>

\* step 3, lines 203-225
StopService ==
    /\ pc = "stop"
    /\ steps' = Append(steps, 3)
    /\ cmds' = Append(cmds, ServiceCommand(config.web_server_init_system, "stop",
                                           config.web_server_service))
    /\ \E result \in CommandResults :
          IF result = "ok"
          THEN /\ service' = "stopped"
               /\ pc' = "backup_db"
               /\ UNCHANGED <<exit_code, ended, errors>>
          ELSE /\ service' = service
               /\ CommandFailed(result, "Unable to stop web server cleanly")
               /\ ended' = "aborted"
    /\ UNCHANGED <<config, install, downloads, backup, locals, log_setup, crashed,
                   copied, restored>>

\* lines 241-247
DumpCommand == <<"mysqldump", config.db_name>>

\* Mutant: step 4 without the test of line 230
BackupDatabaseNoGuard ==
    /\ pc = "backup_db"
    /\ steps' = Append(steps, 4)
    /\ cmds' = Append(cmds, DumpCommand)
    /\ backup' = [backup EXCEPT !.dir = TRUE, !.sql = "dump"]
    /\ pc' = "backup_files"
    /\ UNCHANGED <<exit_code, ended, errors>>
    /\ UNCHANGED <<config, install, downloads, service, locals, log_setup, crashed,
                   copied, restored>>

\* Mutant: step 4 starts the web server again before it gives up on an
\* existing dump
BackupDatabaseStartsAgain ==
    /\ pc = "backup_db"
    /\ steps' = Append(steps, 4)
    /\ IF backup.sql # "none"
       THEN /\ StepFailed("DB backup already exists")
            /\ cmds' = Append(cmds, ServiceCommand(config.web_server_init_system,
                                                   "start", config.web_server_service))
            /\ service' = "running"
            /\ backup' = backup
       ELSE /\ service' = service
            /\ \/ /\ ~backup.dir
                  /\ StepFailed("Unable to create directory")
                  /\ UNCHANGED <<backup, cmds>>
               \/ /\ cmds' = Append(cmds, DumpCommand)
                  /\ \E result \in CommandResults :
                        IF result = "ok"
                        THEN /\ backup' = [backup EXCEPT !.dir = TRUE, !.sql = "dump"]
                             /\ pc' = "backup_files"
                             /\ UNCHANGED <<exit_code, ended, errors>>
                        ELSE /\ \E f \in (IF result = "nonzero" THEN {"none", "partial"} ELSE {"none"}) :
                                   backup' = [backup EXCEPT !.dir = TRUE, !.sql = f]
                             /\ CommandFailed(result, "Unable to back up database")
                             /\ ended' = "aborted"
    /\ UNCHANGED <<config, install, downloads, locals, log_setup, crashed, copied, restored>>

\* step 4, lines 227-254
BackupDatabase ==
    /\ pc = "backup_db"
    /\ steps' = Append(steps, 4)
    /\ IF backup.sql # "none"
       THEN /\ StepFailed("DB backup already exists")
            /\ UNCHANGED <<backup, cmds>>
       ELSE \/ /\ ~backup.dir
               /\ StepFailed("Unable to create directory")
               /\ UNCHANGED <<backup, cmds>>
            \/ /\ cmds' = Append(cmds, DumpCommand)
               /\ \E result \in CommandResults :
                     IF result = "ok"
                     THEN /\ backup' = [backup EXCEPT !.dir = TRUE, !.sql = "dump"]
                          /\ pc' = "backup_files"
                          /\ UNCHANGED <<exit_code, ended, errors>>
                     ELSE /\ \E f \in (IF result = "nonzero" THEN {"none", "partial"} ELSE {"none"}) :
                                backup' = [backup EXCEPT !.dir = TRUE, !.sql = f]
                          /\ CommandFailed(result, "Unable to back up database")
                          /\ ended' = "aborted"
    /\ UNCHANGED <<config, install, downloads, service, locals, log_setup, crashed,
                   copied, restored>>

\* Mutant: step 5 without the test of line 257
BackupFilesNoGuard ==
    /\ pc = "backup_files"
    /\ steps' = Append(steps, 5)
    /\ backup' = [backup EXCEPT !.zip = "install_tree"]
    /\ pc' = "copy_needed"
    /\ UNCHANGED <<exit_code, ended, errors>>
    /\ UNCHANGED <<config, install, downloads, service, locals, log_setup, crashed,
                   cmds, copied, restored>>

\* Mutant: an archive that could not be written is logged and the run goes
\* on to step 6
BackupFilesGoesOn ==
    /\ pc = "backup_files"
    /\ steps' = Append(steps, 5)
    /\ IF backup.zip # "none"
       THEN /\ StepFailed("Backup already exists")
            /\ backup' = backup
       ELSE \/ /\ backup' = [backup EXCEPT !.zip = "install_tree"]
               /\ pc' = "copy_needed"
               /\ UNCHANGED <<exit_code, ended, errors>>
            \/ /\ \E f \in {"none", "partial"} : backup' = [backup EXCEPT !.zip = f]
               /\ errors' = Append(errors, "Unable to zip and back up the current installation")
               /\ pc' = "copy_needed"
               /\ UNCHANGED <<exit_code, ended>>
    /\ UNCHANGED <<config, install, downloads, service, locals, log_setup, crashed,
                   cmds, copied, restored>>

\* step 5, lines 256-265
BackupFiles ==
    /\ pc = "backup_files"
    /\ steps' = Append(steps, 5)
    /\ IF backup.zip # "none"
       THEN /\ StepFailed("Backup already exists")
            /\ backup' = backup
       ELSE \/ /\ backup' = [backup EXCEPT !.zip = "install_tree"]
               /\ pc' = "copy_needed"
               /\ UNCHANGED <<exit_code, ended, errors>>
            \/ /\ \E f \in {"none", "partial"} : backup' = [backup EXCEPT !.zip = f]
               /\ StepFailed("Unable to zip and back up the current installation")
    /\ UNCHANGED <<config, install, downloads, service, locals, log_setup, crashed,
                   cmds, copied, restored>>

\* lines 279 and 313: the security file is copied and restored
NeedsSecurity(version) == StartsWith(version, "4") \/ StartsWith(version, "5")

\* Mutant: step 6 skips a file the installation tree lacks
CopyNeededSkipsMissing(b, inst, version, io) ==
    LET ok1 == io # 1
        c1 == ok1 /\ inst.upload # "none"
        b1 == IF c1
              THEN [b EXCEPT !.upload = IF @ = "none" THEN inst.upload ELSE "merged"]
              ELSE b
        ok2 == ok1 /\ io # 2
        c2 == ok2 /\ inst.config # "none"
        b2 == IF c2 THEN [b1 EXCEPT !.config = inst.config] ELSE b1
        sec == NeedsSecurity(version)
        ok3 == ok2 /\ (sec => io # 3)
        c3 == ok3 /\ sec /\ inst.security # "none"
        b3 == IF c3 THEN [b2 EXCEPT !.security = inst.security] ELSE b2
    IN  [ ok |-> ok3, backup |-> b3,
          files |-> (IF c1 THEN {"upload"} ELSE {})
                       \cup (IF c2 THEN {"config"} ELSE {})
                       \cup (IF c3 THEN {"security"} ELSE {}) ]

\* lines 269-282: the three copies in order; io is the copy an I/O error
\* stops (0: none). The result is the backup directory, the files copied
\* and whether all copies were made.
CopyNeeded(b, inst, version, io) ==
    LET ok1 == inst.upload # "none" /\ io # 1
        b1 == IF ok1
              THEN [b EXCEPT !.upload = IF @ = "none" THEN inst.upload ELSE "merged"]
              ELSE b
        ok2 == ok1 /\ inst.config # "none" /\ io # 2
        b2 == IF ok2 THEN [b1 EXCEPT !.config = inst.config] ELSE b1
        sec == NeedsSecurity(version)
        ok3 == ok2 /\ (sec => (inst.security # "none" /\ io # 3))
        b3 == IF ok3 /\ sec THEN [b2 EXCEPT !.security = inst.security] ELSE b2
    IN  [ ok |-> ok3, backup |-> b3,
          files |-> (IF ok1 THEN {"upload"} ELSE {})
                       \cup (IF ok2 THEN {"config"} ELSE {})
                       \cup (IF ok3 /\ sec THEN {"security"} ELSE {}) ]

\* the installation tree with the files of gone deleted
Without(inst, gone) ==
    [ inst EXCEPT !.upload = IF "upload" \in gone THEN "none" ELSE @,
                  !.config = IF "config" \in gone THEN "none" ELSE @,
                  !.security = IF "security" \in gone THEN "none" ELSE @ ]

\* Mutant: step 6 moves the files out of the installation tree
CopyNeededFilesMoves ==
    /\ pc = "copy_needed"
    /\ steps' = Append(steps, 6)
    /\ \E io \in 0..3 :
          LET r == CopyNeeded(backup, install, current_version, io)
          IN  /\ backup' = r.backup
              /\ copied' = r.files
              /\ install' = Without(install, r.files)
              /\ IF r.ok
                 THEN /\ pc' = "delete"
                      /\ UNCHANGED <<exit_code, ended, errors>>
                 ELSE StepFailed("Unable to copy needed files")
    /\ UNCHANGED <<config, downloads, service, locals, log_setup, crashed,
                   cmds, restored>>

\* step 6, lines 267-285
CopyNeededFiles ==
    /\ pc = "copy_needed"
    /\ steps' = Append(steps, 6)
    /\ \E io \in 0..3 :
          LET r == CopyNeeded(backup, install, current_version, io)
          IN  /\ backup' = r.backup
              /\ copied' = r.files
              /\ IF r.ok
                 THEN /\ pc' = "delete"
                      /\ UNCHANGED <<exit_code, ended, errors>>
                 ELSE StepFailed("Unable to copy needed files")
    /\ UNCHANGED <<config, install, downloads, service, locals, log_setup, crashed,
                   cmds, restored>>

\* step 7, lines 287-292
DeleteInstall ==
    /\ pc = "delete"
    /\ steps' = Append(steps, 7)
    /\ \/ /\ install' = NoInstall
          /\ pc' = "move"
          /\ UNCHANGED <<exit_code, ended, errors>>
       \/ /\ \E gone \in SUBSET NeededFiles : install' = Without(install, gone)
          /\ StepFailed("Unable to delete existing application files")
    /\ UNCHANGED <<config, downloads, backup, service, locals, log_setup, crashed,
                   cmds, copied, restored>>

\* the limesurvey/ directory of a release, moved to install_path
NewInstall(tree, code) ==
    [ exists |-> TRUE, access |-> TRUE,
      version_php |-> ReleaseVersionPhp(code),
      app |-> "new",
      upload |-> IF tree.upload THEN "new" ELSE "none",
      config |-> IF tree.config THEN "new" ELSE "none",
      security |-> IF tree.security THEN "new" ELSE "none",
      configdir |-> tree.configdir, owner |-> "root:root", mode |-> "755" ]

\* lines 296-300: rmtree of the release's upload directory, then the move;
\* io is the operation an I/O error stops (0: none)
MoveNew(dl, inst, code, io) ==
    LET ok1 == dl.dir = "extracted" /\ dl.tree.limesurvey /\ dl.tree.upload /\ io # 1
        t1 == IF ok1 THEN [dl.tree EXCEPT !.upload = FALSE] ELSE dl.tree
        ok2 == ok1 /\ io # 2
    IN  [ ok |-> ok2,
          downloads |-> [dl EXCEPT !.tree = IF ok2 THEN NoTree ELSE t1],
          install |-> IF ok2 THEN NewInstall(t1, code) ELSE inst ]

\* step 8, lines 294-303
MoveNewFiles ==
    /\ pc = "move"
    /\ steps' = Append(steps, 8)
    /\ \E io \in 0..2 :
          LET r == MoveNew(downloads, install, new_version, io)
          IN  /\ downloads' = r.downloads
              /\ install' = r.install
              /\ IF r.ok
                 THEN /\ pc' = "restore"
                      /\ UNCHANGED <<exit_code, ended, errors>>
                 ELSE StepFailed("Unable to move new application files")
    /\ UNCHANGED <<config, backup, service, locals, log_setup, crashed,
                   cmds, copied, restored>>

\* Mutant: step 9 copies the files back and leaves the backup directory
\* as step 6 wrote it
RestoreNeededCopies(b, inst, version, io) ==
    LET ok1 == inst.exists /\ b.upload # "none" /\ inst.upload = "none" /\ io # 1
        i1 == IF ok1 THEN [inst EXCEPT !.upload = b.upload] ELSE inst
        ok2 == ok1 /\ inst.configdir /\ b.config # "none" /\ inst.config = "none" /\ io # 2
        i2 == IF ok2 THEN [i1 EXCEPT !.config = b.config] ELSE i1
        sec == NeedsSecurity(version)
        ok3 == ok2 /\ (sec => (b.security # "none" /\ inst.security = "none" /\ io # 3))
        i3 == IF ok3 /\ sec THEN [i2 EXCEPT !.security = b.security] ELSE i2
    IN  [ ok |-> ok3, backup |-> b, install |-> i3,
          files |-> (IF ok1 THEN {"upload"} ELSE {})
                       \cup (IF ok2 THEN {"config"} ELSE {})
                       \cup (IF ok3 /\ sec THEN {"security"} ELSE {}) ]

\* lines 307-317: the three shutil.move calls in order; a move into a
\* directory raises when the name is already there; io is the move an I/O
\* error stops (0: none)
RestoreNeeded(b, inst, version, io) ==
    LET ok1 == inst.exists /\ b.upload # "none" /\ inst.upload = "none" /\ io # 1
        i1 == IF ok1 THEN [inst EXCEPT !.upload = b.upload] ELSE inst
        b1 == IF ok1 THEN [b EXCEPT !.upload = "none"] ELSE b
        ok2 == ok1 /\ inst.configdir /\ b.config # "none" /\ inst.config = "none" /\ io # 2
        i2 == IF ok2 THEN [i1 EXCEPT !.config = b.config] ELSE i1
        b2 == IF ok2 THEN [b1 EXCEPT !.config = "none"] ELSE b1
        sec == NeedsSecurity(version)
        ok3 == ok2 /\ (sec => (b.security # "none" /\ inst.security = "none" /\ io # 3))
        i3 == IF ok3 /\ sec THEN [i2 EXCEPT !.security = b.security] ELSE i2
        b3 == IF ok3 /\ sec THEN [b2 EXCEPT !.security = "none"] ELSE b2
    IN  [ ok |-> ok3, backup |-> b3, install |-> i3,
          files |-> (IF ok1 THEN {"upload"} ELSE {})
                       \cup (IF ok2 THEN {"config"} ELSE {})
                       \cup (IF ok3 /\ sec THEN {"security"} ELSE {}) ]

\* step 9, lines 305-320
RestoreFiles ==
    /\ pc = "restore"
    /\ steps' = Append(steps, 9)
    /\ \E io \in 0..3 :
          LET r == RestoreNeeded(backup, install, current_version, io)
          IN  /\ backup' = r.backup
              /\ install' = r.install
              /\ restored' = r.files
              /\ IF r.ok
                 THEN /\ pc' = "chown"
                      /\ UNCHANGED <<exit_code, ended, errors>>
                 ELSE StepFailed("Unable to restore existing application files")
    /\ UNCHANGED <<config, downloads, service, locals, log_setup, crashed, cmds, copied>>

\* step 10, lines 322-333
ApplyOwnership ==
    /\ pc = "chown"
    /\ steps' = Append(steps, 10)
    /\ cmds' = Append(cmds, <<"chown", "-R", "www-data:www-data", config.install_path>>)
    /\ \E result \in CommandResults :
          IF result = "ok"
          THEN /\ install' = [install EXCEPT !.owner = "www-data:www-data"]
               /\ pc' = "chmod"
               /\ UNCHANGED <<exit_code, ended, errors>>
          ELSE /\ install' = install
               /\ CommandFailed(result, "Unable to apply ownership")
               /\ ended' = "aborted"
    /\ UNCHANGED <<config, downloads, backup, service, locals, log_setup, crashed,
                   copied, restored>>

\* step 11, lines 335-347
ApplyPermissions ==
    /\ pc = "chmod"
    /\ steps' = Append(steps, 11)
    /\ cmds' = Append(cmds, <<"chmod", "-R", config.install_octal_permissions,
                              config.install_path>>)
    /\ \E result \in CommandResults :
          IF result = "ok"
          THEN /\ install' = [install EXCEPT !.mode = config.install_octal_permissions]
               /\ pc' = "start"
               /\ UNCHANGED <<exit_code, ended, errors>>
          ELSE /\ install' = install
               /\ CommandFailed(result, "Unable to apply octal permissions")
               /\ ended' = "aborted"
    /\ UNCHANGED <<config, downloads, backup, service, locals, log_setup, crashed,
                   copied, restored>>

\* step 12, lines 349-372, and the return of run()
StartService ==
    /\ pc = "start"
    /\ steps' = Append(steps, 12)
    /\ cmds' = Append(cmds, ServiceCommand(config.web_server_init_system, "start",
                                           config.web_server_service))
    /\ \E result \in CommandResults :
          IF result = "ok"
          THEN /\ service' = "running"
               /\ pc' = "done"
               /\ exit_code' = 0
               /\ ended' = "completed"
               /\ errors' = errors
          ELSE /\ service' = service
               /\ CommandFailed(result, "Unable to start web server cleanly")
               /\ ended' = "aborted"
    /\ UNCHANGED <<config, install, downloads, backup, locals, log_setup, crashed,
                   copied, restored>>

Next ==
    \/ LoadConfig
    \/ DetectVersion
    \/ FetchReleases
    \/ ParseReleases
    \/ SelectVersion
    \/ Download
    \/ Extract
    \/ StopService
    \/ BackupDatabase
    \/ BackupFiles
    \/ CopyNeededFiles
    \/ DeleteInstall
    \/ MoveNewFiles
    \/ RestoreFiles
    \/ ApplyOwnership
    \/ ApplyPermissions
    \/ StartService

Spec == Init /\ [][Next]_vars

\* run() is one thread of straight-line code: when every call it makes
\* returns, the statement after it is executed
FairSpec == Spec /\ WF_vars(Next)

(***************************************************************************)
(* A run that is killed, and the invocations after it                      *)
(***************************************************************************)
\* The process is killed after the rmtree of step 7 returned and before
\* step 9 begins: between two steps, or inside step 8 after the rmtree of
\* line 296, or while the move of lines 297-299 copies the tree
Crash ==
    /\ ~crashed
    /\ pc \in {"move", "restore"}
    /\ crashed' = TRUE
    /\ pc' = "crashed"
    /\ ended' = "crashed"
    /\ \/ UNCHANGED <<install, downloads, steps>>
       \/ /\ pc = "move"
          /\ MoveNew(downloads, install, new_version, 0).ok
          /\ steps' = Append(steps, 8)
          /\ LET r == MoveNew(downloads, install, new_version, 2)
             IN  /\ downloads' = r.downloads
                 /\ \/ install' = install
                    \/ \E php \in {GarbledVersionPhp, ReleaseVersionPhp(new_version)} :
                          install' = [NewInstall(r.downloads.tree, new_version)
                                         EXCEPT !.app = "partial", !.version_php = php]
    /\ UNCHANGED <<config, backup, service, locals, exit_code, errors, log_setup,
                   cmds, copied, restored>>

\* lines 375-376: the updater is invoked again; the new process finds the
\* disk and the service as the last one left them. The backup directory it
\* will name is the one of the last invocation, or, when the versions in
\* its name differ, one that no invocation of the model has written to.
Restart ==
    /\ crashed
    /\ pc \in {"crashed", "done"}
    /\ pc' = "load"
    /\ config' = EmptyConfig
    /\ page' = <<>>
    /\ releases' = <<>>
    /\ current_version' = <<>>
    /\ version_code' = <<>>
    /\ new_version' = <<>>
    /\ url' = <<>>
    /\ exit_code' = -1
    /\ ended' = "running"
    /\ errors' = <<>>
    /\ log_setup' = FALSE
    /\ steps' = <<>>
    /\ cmds' = <<>>
    /\ copied' = {}
    /\ restored' = {}
    /\ backup' \in (IF pc = "crashed" /\ version_code # new_version
                     THEN {} ELSE {backup}) \cup Backups
    /\ UNCHANGED <<install, downloads, service, crashed>>

CrashNext ==
    \/ Next
    \/ Crash
    \/ Restart

CrashSpec == Init /\ [][CrashNext]_vars


(***************************************************************************)
(* Notions the properties share                                            *)
(***************************************************************************)
\* The selection of lines 163-177 has run
Selected ==
    \/ pc \in StepPlaces
    \/ pc = "done" /\ ended \in {"no_release", "up_to_date", "aborted", "completed"}

\* The entries of the parsed list on the configured channel
Matches == {i \in DOMAIN releases : releases[i].type = config.branch}

FirstMatch == releases[Min(Matches)]

\* No step has begun and no command was launched
NoMutation == steps = <<>> /\ cmds = <<>> /\ service = "running"

\* The major version number: the digits before the first dot, as a number
Digit(c) ==
    CASE c = "0" -> 0 [] c = "1" -> 1 [] c = "2" -> 2 [] c = "3" -> 3 [] c = "4" -> 4
      [] c = "5" -> 5 [] c = "6" -> 6 [] c = "7" -> 7 [] c = "8" -> 8 [] c = "9" -> 9

RECURSIVE Number(_)
Number(s) == IF s = <<>> THEN 0 ELSE 10 * Number(SubSeq(s, 1, Len(s) - 1)) + Digit(s[Len(s)])

Major(version) == Number(BeforeFirst(version, "."))

\* The first n steps, in order
FirstSteps(n) == [i \in 1..n |-> i]

(***************************************************************************)
(* C1. When the first release on the configured channel has the installed  *)
(* version code (version + "+" + build) as its release_code, the run ends  *)
(* as already up to date with exit code 0 and without any mutation.        *)
(***************************************************************************)
C1_SameCodeIsUpToDate ==
    (Selected /\ Matches # {} /\ FirstMatch.release_code = version_code)
        => (pc = "done" /\ ended = "up_to_date" /\ exit_code = 0 /\ NoMutation)

(***************************************************************************)
(* C2. The upgrade target, release_code and url together, is the first     *)
(* entry of the list, in list order, on the configured channel.            *)
(***************************************************************************)
C2_FirstMatchChosen ==
    (Selected /\ Matches # {})
        => (new_version = FirstMatch.release_code /\ url = FirstMatch.url)

\* two entries on the channel with different codes, the first one chosen
C2_Witness ==
    /\ Selected
    /\ \E i, j \in Matches :
          /\ i < j
          /\ releases[i].release_code # releases[j].release_code
          /\ \A k \in Matches : i <= k
          /\ new_version = releases[i].release_code
          /\ url = releases[i].url

(***************************************************************************)
(* C3. When no entry of the parsed list is on the configured channel, the  *)
(* run ends with "no compatible release", exit code 1, and nothing was     *)
(* mutated.                                                                *)
(***************************************************************************)
C3_NoCompatibleRelease ==
    (Selected /\ Matches = {})
        => (pc = "done" /\ ended = "no_release" /\ exit_code = 1 /\ NoMutation
              /\ new_version = <<>> /\ url = <<>>)

\* a list with entries, none on the channel
C3_Witness ==
    /\ pc = "done" /\ ended = "no_release" /\ exit_code = 1
    /\ releases # <<>>
    /\ Matches = {}
    /\ NoMutation

(***************************************************************************)
(* C4. When <backup_path>/<db_name>.sql exists as step 4 begins, the run   *)
(* ends in step 4 with exit code 1, the dump tool is not invoked, and no   *)
(* later step runs.                                                        *)
(***************************************************************************)
C4_DumpGuard ==
    /\ [][(pc = "backup_db" /\ backup.sql # "none")
             => /\ pc' = "done"
                /\ exit_code' = 1
                /\ cmds' = cmds
                /\ backup' = backup
                /\ steps' = FirstSteps(4)]_vars
    /\ [][pc # "done"]_vars

C4_Witness ==
    /\ pc = "done" /\ exit_code = 1
    /\ steps = FirstSteps(4)
    /\ backup.sql = "stale"
    /\ \A i \in DOMAIN cmds : cmds[i] # DumpCommand

(***************************************************************************)
(* C5. As claimed: whichever artifact of the backup set exists when the    *)
(* step that writes it begins, the run stops with exit code 1 and the      *)
(* artifact is left as it was.                                             *)
(***************************************************************************)
WriterOf(a) ==
    IF a = "sql" THEN "backup_db" ELSE IF a = "zip" THEN "backup_files" ELSE "copy_needed"

C5_EveryArtifactGuarded ==
    [][\A a \in BackupArtifacts :
          (pc = WriterOf(a) /\ backup[a] # "none")
             => (pc' = "done" /\ exit_code' = 1 /\ backup'[a] = backup[a])]_vars

(***************************************************************************)
(* C5, amended. The SQL dump and the zip archive are guarded: when one     *)
(* exists as its step begins, the run stops with exit code 1 and leaves    *)
(* it. The copies of step 6 are not: the run goes on, an existing upload   *)
(* directory is merged into and an existing config.php is overwritten.     *)
(***************************************************************************)
C5_DumpAndArchiveGuarded ==
    /\ [][\A a \in {"sql", "zip"} :
             (pc = WriterOf(a) /\ backup[a] # "none")
                => (pc' = "done" /\ exit_code' = 1 /\ backup'[a] = backup[a])]_vars
    /\ [][(pc = "copy_needed" /\ pc' = "delete")
             => /\ (backup.upload # "none" => backup'.upload = "merged")
                /\ backup'.config = install.config]_vars

C5_Witness ==
    /\ pc = "done" /\ exit_code = 1
    /\ steps = FirstSteps(5)
    /\ backup.zip = "stale"

(***************************************************************************)
(* C6. With an installed major version of 4 or 5 the files copied in step  *)
(* 6 and restored in step 9 include the security file; with a major        *)
(* version of 6 or more they do not.                                       *)
(***************************************************************************)
C6_SecurityFileByMajor ==
    /\ (pc \in {"delete", "move", "restore", "chown", "chmod", "start"}
          \/ (pc = "done" /\ ended = "completed"))
         => /\ (Major(current_version) \in {4, 5} => "security" \in copied)
            /\ (Major(current_version) >= 6 => "security" \notin copied)
    /\ (pc \in {"chown", "chmod", "start"} \/ (pc = "done" /\ ended = "completed"))
         => /\ (Major(current_version) \in {4, 5} => "security" \in restored)
            /\ (Major(current_version) >= 6 => "security" \notin restored)


(***************************************************************************)
(* C7. As claimed: when step N fails the run ends at once with a non-zero  *)
(* exit status, no later step runs, and what steps 1..N-1 left (the        *)
(* downloaded archive, the backups written, the stopped service, the       *)
(* deleted tree) stays exactly as they left it.                            *)
(***************************************************************************)
\* A step fails: it writes an error record, or it ends the run short of
\* completion
Failing == pc \in StepPlaces /\ (errors' # errors \/ (pc' = "done" /\ ended' # "completed"))

EndsAtOnce ==
    /\ pc' = "done"
    /\ exit_code' = 1
    /\ steps' = FirstSteps(StepNo(pc))

KeptExactly(n) ==
    /\ n > 1 => downloads'.zip = downloads.zip
    /\ n > 3 => service' = service
    /\ n > 4 => backup'.sql = backup.sql
    /\ n > 5 => backup'.zip = backup.zip
    /\ n > 6 => \A f \in NeededFiles : backup'[f] = backup[f]
    /\ n > 7 => install'.app # "old"

C7_FailureKeepsEverything ==
    /\ [][Failing => (EndsAtOnce /\ KeptExactly(StepNo(pc)))]_vars
    /\ [][pc # "done"]_vars

(***************************************************************************)
(* C7, amended. When step N fails the run ends at once with exit status 1, *)
(* no later step runs and nothing that steps 1..N-1 did is reverted; what  *)
(* the failing step had already done stays done: a failing step 9 may      *)
(* already have moved some of the copies of step 6 out of the backup       *)
(* directory into the installation tree.                                   *)
(***************************************************************************)
KeptOrMoved(n) ==
    /\ n > 1 => downloads'.zip = downloads.zip
    /\ n > 3 => service' = service
    /\ n > 4 => backup'.sql = backup.sql
    /\ n > 5 => backup'.zip = backup.zip
    /\ n > 6 => \A f \in NeededFiles :
                   \/ backup'[f] = backup[f]
                   \/ n = 9 /\ backup'[f] = "none" /\ install'[f] = backup[f]
    /\ n > 7 => install'.app # "old"

C7_FailureRevertsNothing ==
    /\ [][Failing => (EndsAtOnce /\ KeptOrMoved(StepNo(pc)))]_vars
    /\ [][pc # "done"]_vars

\* step 9 failed after its first move: the uploads left the backup directory
C7_Witness ==
    /\ pc = "done" /\ ended = "aborted" /\ exit_code = 1
    /\ steps = FirstSteps(9)
    /\ restored = {"upload"}
    /\ backup.upload = "none" /\ install.upload = "old"
    /\ backup.config = "old"
    /\ service = "stopped"

(***************************************************************************)
(* C8. Every failure of a workflow step, whatever its cause, leaves an     *)
(* error record in the log before the run exits with code 1.               *)
(***************************************************************************)
C8_EveryFailureLogged ==
    (pc = "done" /\ ended = "aborted") => (exit_code = 1 /\ errors # <<>>)

(***************************************************************************)
(* C9. The exit code is 0 exactly when the run completed step 12 after     *)
(* steps 1-11, or ended as already up to date; every other end (invalid    *)
(* configuration, version detection, release list, no release, a failed    *)
(* step) exits with code 1.                                                *)
(***************************************************************************)
C9_ExitCode ==
    /\ pc # "done" => exit_code = -1
    /\ pc = "done" =>
          /\ exit_code \in {0, 1}
          /\ exit_code = 0 <=> ended \in {"completed", "up_to_date"}
          /\ ended \in {"config", "version", "fetch", "parse", "no_release", "aborted"}
                => exit_code = 1
          /\ ended = "completed" => (steps = FirstSteps(12) /\ errors = <<>>)
          /\ ended = "up_to_date" => (steps = <<>> /\ new_version = current_version)
          /\ errors # <<>> => exit_code = 1

C9_Witness ==
    /\ pc = "done" /\ ended = "completed" /\ exit_code = 0
    /\ steps = FirstSteps(12)
    /\ service = "running"

(***************************************************************************)
(* C10. When all twelve steps succeed, the installation path holds the     *)
(* tree of the chosen release with the pre-upgrade uploads directory and   *)
(* config.php, and the pre-upgrade security.php exactly when the installed *)
(* major version was 4 or 5; owner and mode are applied, the service runs  *)
(* and the exit code is 0.                                                 *)
(***************************************************************************)
C10_CompletedTree ==
    (pc = "done" /\ ended = "completed") =>
        /\ install.exists
        /\ install.app = "new"
        /\ ParseVersion(install.version_php) = BeforeFirst(new_version, "+")
        /\ install.upload = "old"
        /\ install.config = "old"
        /\ install.security =
              (IF Major(current_version) \in {4, 5} THEN "old"
               ELSE IF downloads.content.security THEN "new" ELSE "none")
        /\ install.owner = "www-data:www-data"
        /\ install.mode = config.install_octal_permissions
        /\ service = "running"
        /\ exit_code = 0

(***************************************************************************)
(* C11. As claimed: when all twelve steps succeeded, the backup directory  *)
(* holds the SQL dump, the zip archive of the pre-upgrade tree and the     *)
(* copies step 6 made (the uploads directory and the configuration         *)
(* file(s)).                                                               *)
(***************************************************************************)
Completed == pc = "done" /\ ended = "completed"

C11_BackupHoldsCopies ==
    Completed =>
        /\ backup.dir
        /\ backup.sql = "dump"
        /\ backup.zip = "install_tree"
        /\ {"upload", "config"} \subseteq copied
        /\ \A f \in copied : backup[f] # "none"

(***************************************************************************)
(* C11, amended. When all twelve steps succeeded, the backup directory     *)
(* holds the SQL dump and the zip archive of the pre-upgrade tree, both    *)
(* written by this run; the copies step 6 made are no longer in it: step 9 *)
(* moved each of them into the installation tree.                          *)
(***************************************************************************)
C11_BackupHoldsDumpAndArchive ==
    Completed =>
        /\ backup.dir
        /\ backup.sql = "dump"
        /\ backup.zip = "install_tree"
        /\ {"upload", "config"} \subseteq copied
        /\ restored = copied
        /\ \A f \in copied : backup[f] = "none" /\ install[f] \in {"old", "merged"}

\* a completed upgrade of a 5.x installation: three copies made, none left
C11_Witness ==
    /\ Completed
    /\ copied = {"upload", "config", "security"}
    /\ backup.sql = "dump" /\ backup.zip = "install_tree"
    /\ backup.upload = "none" /\ backup.config = "none" /\ backup.security = "none"

(***************************************************************************)
(* C12. A configuration that fails validation (a required key missing,     *)
(* None or empty; a branch other than lts, unstable, dev; install_path     *)
(* missing or not writable and executable; an init system outside the      *)
(* enumeration) ends the run with exit code 1 before any side effect: no   *)
(* log sink is set up, no release page is fetched, nothing on disk and no  *)
(* service changes, and nothing happens afterwards.                        *)
(***************************************************************************)
RequiredKeys == {expected_options[i] : i \in DOMAIN expected_options}

\* The failures the claim lists, for the configuration c and the state
\* ipath of install_path
Rejected(c, ipath) ==
    \/ \E k \in RequiredKeys : k \notin DOMAIN c \/ c[k] \in {"None", ""}
    \/ c.branch \notin Branches
    \/ ~ipath.exists
    \/ ~ipath.access
    \/ c.web_server_init_system \notin InitSystems

C12_InvalidConfigEndsFirst ==
    /\ [][(pc = "load" /\ Rejected(config', install)) =>
              /\ pc' = "done"
              /\ exit_code' = 1
              /\ ended' = "config"
              /\ ~log_setup'
              /\ errors' = <<>>
              /\ page' = <<>> /\ releases' = <<>>
              /\ fs' = fs
              /\ steps' = <<>> /\ cmds' = <<>>]_vars
    /\ [][pc = "done" => FALSE]_vars

\* a complete configuration, and an installation path that is not writable
C12_Witness ==
    /\ pc = "done" /\ ended = "config" /\ exit_code = 1
    /\ config \in ValidConfigs
    /\ install.exists /\ ~install.access
    /\ ~log_setup

(***************************************************************************)
(* C13. The database dump, the archive of the installation tree and every  *)
(* change of the installation directory (steps 4, 5 and 7-11) happen only  *)
(* after the stop command of step 3 succeeded in this run and before the   *)
(* start command of step 12 is launched; a stop command that fails ends    *)
(* the run with the installation directory untouched.                      *)
(***************************************************************************)
StopCommand ==
    ServiceCommand(config.web_server_init_system, "stop", config.web_server_service)

StartCommand ==
    ServiceCommand(config.web_server_init_system, "start", config.web_server_service)

Launched(c) == \E i \in DOMAIN cmds : cmds[i] = c

\* step 3 has run and its command succeeded
StopSucceeded ==
    /\ Len(steps) >= 3
    /\ Launched(StopCommand)
    /\ service = "stopped"

\* This transition dumps the database, archives the tree, changes the
\* installation directory or begins one of the steps that do
OfflineWork ==
    \/ install' # install
    \/ backup'.sql # backup.sql
    \/ backup'.zip # backup.zip
    \/ Len(cmds') > Len(cmds) /\ cmds'[Len(cmds')][1] \in {"mysqldump", "chown", "chmod"}
    \/ Len(steps') > Len(steps) /\ steps'[Len(steps')] \in {4, 5, 7, 8, 9, 10, 11}

C13_WorkOnlyWhileStopped ==
    /\ [][OfflineWork => (StopSucceeded /\ ~Launched(StartCommand)')]_vars
    /\ [][Len(steps') <= 3 => install' = install]_vars
    /\ [][(pc = "stop" /\ service' # "stopped") =>
              (pc' = "done" /\ exit_code' = 1 /\ install' = install
                 /\ backup' = backup)]_vars
    /\ [][Launched(StartCommand) => FALSE]_vars

\* the stop command failed: the run is over, the tree it found is in place
C13_WitnessStopFailed ==
    /\ pc = "done" /\ ended = "aborted"
    /\ steps = FirstSteps(3)
    /\ Launched(StopCommand)
    /\ service = "running"
    /\ install.app = "old"

\* the tree is being replaced while the service is stopped
C13_Witness ==
    /\ pc = "restore"
    /\ StopSucceeded /\ ~Launched(StartCommand)
    /\ install.app = "new"

(***************************************************************************)
(* C14. The workflow is a linear chain: a step begins only as the next     *)
(* number after the steps begun so far, so each step runs at most once and *)
(* in order; step N+1 follows step N only when step N ended without an     *)
(* error record and without an exit; a step that fails ends the run and is *)
(* not tried again.                                                        *)
(***************************************************************************)
C14_LinearChain ==
    /\ [][steps' # steps =>
              /\ pc = Places[Len(steps) + 1]
              /\ steps' = Append(steps, Len(steps) + 1)
              /\ steps' = FirstSteps(StepNo(pc))]_vars
    /\ [][(pc \in StepPlaces /\ pc' # "done") =>
              /\ StepNo(pc) < Len(Places)
              /\ pc' = Places[StepNo(pc) + 1]
              /\ errors' = errors
              /\ exit_code' = -1 /\ ended' = "running"]_vars
    /\ [][pc' \in StepPlaces => (steps' = FirstSteps(StepNo(pc') - 1))]_vars
    /\ [][Failing => (pc' = "done" /\ exit_code' = 1)]_vars

\* step 5 failed after steps 1-4: it ran once and no step followed
C14_Witness ==
    /\ pc = "done" /\ ended = "aborted"
    /\ steps = FirstSteps(5)
    /\ errors # <<>>
    /\ backup.sql = "dump"
    /\ backup.zip # "install_tree"

(***************************************************************************)
(* C17. The start command is launched only in step 12: a run that is       *)
(* aborted after the stop command of step 3 succeeded (a failure in any of *)
(* steps 4-11, the guards against an existing dump or archive included)    *)
(* leaves the service stopped when it ends, and has launched no start      *)
(* command.                                                                *)
(***************************************************************************)
C17_AbortLeavesServiceStopped ==
    /\ Launched(StartCommand) => steps = FirstSteps(12)
    /\ (service = "running" /\ Len(steps) > 3) => Completed
    /\ (pc = "done" /\ ended = "aborted" /\ Len(steps) \in 4..11) =>
          /\ service = "stopped"
          /\ Launched(StopCommand)
          /\ ~Launched(StartCommand)

\* step 4 found the dump of an earlier run and gave up: the service is down
C17_Witness ==
    /\ pc = "done" /\ ended = "aborted" /\ exit_code = 1
    /\ steps = FirstSteps(4)
    /\ backup.sql = "stale"
    /\ service = "stopped"

(***************************************************************************)
(* C18. A run that ends before step 7 begins (configuration, version,      *)
(* release list, selection, or a failure in steps 1-6) leaves the          *)
(* installation directory exactly as it found it: until step 7 begins no   *)
(* transition changes the tree, steps 1 and 2 write to the download        *)
(* directory only and steps 4-6 to the backup directory only.              *)
(***************************************************************************)
C18_TreeUntouchedBeforeDelete ==
    /\ [][Len(steps') < 7 => install' = install]_vars
    /\ [][(pc \notin StepPlaces /\ pc' = "done") => fs' = fs]_vars
    /\ [][(pc \in {"download", "extract"}) =>
              (install' = install /\ backup' = backup /\ service' = service)]_vars
    /\ [][(pc \in {"backup_db", "backup_files", "copy_needed"}) =>
              (install' = install /\ downloads' = downloads /\ service' = service)]_vars

\* step 6 failed on its second copy: the old tree is whole
C18_Witness ==
    /\ pc = "done" /\ ended = "aborted"
    /\ steps = FirstSteps(6)
    /\ copied = {"upload"}
    /\ install.app = "old" /\ install.upload = "old" /\ install.config = "old"
    /\ install \in Installs

(***************************************************************************)
(* C19. From the moment step 7 begins to delete the installation tree to   *)
(* the end of the run, this run has written the database dump, the zip     *)
(* archive of the whole pre-upgrade tree and the copies of the uploads     *)
(* directory and the configuration file(s); each file copied is in the     *)
(* backup directory or in the installation directory, with its pre-upgrade *)
(* content.                                                                *)
(***************************************************************************)
PreUpgrade == {"old", "merged"}

C19_BackedUpBeforeDelete ==
    Len(steps) >= 7 =>
        /\ Launched(DumpCommand)
        /\ backup.sql = "dump"
        /\ backup.zip = "install_tree"
        /\ {"upload", "config"} \subseteq copied
        /\ NeedsSecurity(current_version) => "security" \in copied
        /\ \A f \in copied : backup[f] \in PreUpgrade \/ install[f] \in PreUpgrade

\* the tree is gone and the new one not yet moved in
C19_Witness ==
    /\ pc = "move"
    /\ ~install.exists
    /\ backup.sql = "dump" /\ backup.zip = "install_tree"
    /\ backup.upload = "old" /\ backup.config = "old"

(***************************************************************************)
(* C15. When every external command and I/O operation returns, every run   *)
(* reaches an end; the end is exactly one of completed, already up to      *)
(* date and aborted (the exits before step 1 and the failed steps), and    *)
(* the run does nothing after it.                                          *)
(***************************************************************************)
Terminal ==
    /\ pc = "done"
    /\ exit_code \in {0, 1}
    /\ ended \in {"completed", "up_to_date", "aborted",
                   "config", "version", "fetch", "parse", "no_release"}

C15_Terminates ==
    /\ <>Terminal
    /\ [](pc = "done" => Terminal)
    /\ [](ended # "running" => pc = "done")
    /\ [][pc = "done" => FALSE]_vars
    /\ [][ended # "running" => FALSE]_vars

\* the run ended as already up to date
C15_Witness ==
    /\ Terminal
    /\ ended = "up_to_date"
    /\ exit_code = 0
    /\ steps = <<>>

(***************************************************************************)
(* C16. After a run was killed between the deletion of step 7 and the      *)
(* beginning of step 9, nothing recovers the installation: it stays absent *)
(* or without its uploads directory, and every later invocation ends with  *)
(* exit code 1, never as completed or up to date, without getting past     *)
(* step 6.                                                                 *)
(***************************************************************************)
C16_NoRecoveryAfterCrash ==
    crashed =>
        /\ ~install.exists \/ install.upload = "none"
        /\ install.app # "old"
        /\ pc # "crashed" =>
              /\ Len(steps) <= 6
              /\ ended \notin {"completed", "up_to_date"}
              /\ ~Launched(StartCommand)
              /\ pc = "done" => exit_code = 1

\* a later invocation found the new tree without uploads and gave up in
\* step 6
C16_Witness ==
    /\ crashed
    /\ pc = "done" /\ ended = "aborted" /\ exit_code = 1
    /\ steps = FirstSteps(6)
    /\ install.app = "new" /\ install.upload = "none"

=============================================================================
